---- MODULE Spec2Model ----
(***************************************************************************)
(* Model of the hive-app server: the express route handlers of             *)
(* src/routes.ts and the storage layer of src/storage.ts.                  *)
(*                                                                         *)
(* The state is the content of the users and records tables, the time zone *)
(* of the server process, and the last request with its response.  Every   *)
(* route handler is one action; the storage methods it calls are part of   *)
(* that action.                                                            *)
(***************************************************************************)
EXTENDS Integers, Sequences, FiniteSets, TLC

VARIABLES users, records, nextRecordId, tz, customColumns, req, res

vars == <<users, records, nextRecordId, tz, customColumns, req, res>>

-----------------------------------------------------------------------------
(* Bounds of the model *)

MaxUsers == 3
MaxPermKeys == 1
MaxRecords == 2
MaxFilterFields == 2
MaxColumns == 2

-----------------------------------------------------------------------------
(* Roles and permissions: README (src/unnamed/part_000) lines 35 and 56 *)

Roles == {"admin", "secondary_admin", "agent"}

ALL_PERMISSIONS ==
    {"viewRecords", "editRecords", "deleteRecords", "addRecords", "exportRecords",
     "viewAgents", "createAgents", "editAgents", "manageCustomColumns", "viewStats"}

(* A stored permissions value (jsonb): null, or a map from some permission *)
(* names to booleans.  isNull distinguishes null from the empty map.       *)
NullPermissions == [isNull |-> TRUE, map |-> [k \in {} |-> TRUE]]

PermissionsOf(m) == [isNull |-> FALSE, map |-> m]

AllTrue == PermissionsOf([k \in ALL_PERMISSIONS |-> TRUE])

AllFalse == PermissionsOf([k \in ALL_PERMISSIONS |-> FALSE])

(* Permission maps with at most MaxPermKeys keys present, and the two full *)
(* maps with all of the keys but one set the same way.                     *)
SparsePermissions ==
    {PermissionsOf(m) :
        m \in UNION {[S -> BOOLEAN] :
                        S \in {T \in SUBSET ALL_PERMISSIONS : Cardinality(T) <= MaxPermKeys}}}

AlmostFull ==
    {PermissionsOf([k \in ALL_PERMISSIONS |-> IF k = p THEN b ELSE ~b]) :
        p \in ALL_PERMISSIONS, b \in BOOLEAN}

AnyPermissions == {NullPermissions, AllTrue, AllFalse} \cup SparsePermissions \cup AlmostFull

-----------------------------------------------------------------------------
(* Requests.  The actor of a request is the session's user: 0 when the     *)
(* request carries no session, otherwise the id of a stored user, whose    *)
(* row the session layer hands to the handler as req.user.                 *)

Anon == 0

Actors == {Anon} \cup (1 .. Len(users))

isAuthenticated(a) == a \in 1 .. Len(users)

user(a) == users[a]

isAdminAnyAdminRole(a) ==
    isAuthenticated(a) /\ (user(a).role = "admin" \/ user(a).role = "secondary_admin")

isAdmin(a) == isAuthenticated(a) /\ user(a).role = "admin"

isAdminOrSecondary(a) ==
    isAuthenticated(a) /\ (user(a).role = "admin" \/ user(a).role = "secondary_admin")

hasPermissionTruthyKey(a, permission) ==
    IF ~isAuthenticated(a) THEN FALSE
    ELSE IF user(a).role = "admin" THEN TRUE
    ELSE IF user(a).role = "secondary_admin"
         THEN LET perms == user(a).permissions
              IN  ~perms.isNull /\ permission \in DOMAIN perms.map
         ELSE FALSE

hasPermission(a, permission) ==
    IF ~isAuthenticated(a) THEN FALSE
    ELSE IF user(a).role = "admin" THEN TRUE
    ELSE IF user(a).role = "secondary_admin"
         THEN LET perms == user(a).permissions
              IN  /\ ~perms.isNull
                  /\ permission \in DOMAIN perms.map
                  /\ perms.map[permission] = TRUE
         ELSE FALSE

-----------------------------------------------------------------------------
(* Users table *)

NewUser(username, fullName, role, permissions) ==
    [username |-> username, fullName |-> fullName, role |-> role,
     permissions |-> permissions]

SeedAdmin == NewUser("admin", "System Administrator", "admin", NullPermissions)

SeedAgent == NewUser("agent1", "John Doe", "agent", NullPermissions)

(* storage.getUserByUsername: whether a row with that username exists *)
getUserByUsername(username) == \E i \in 1 .. Len(users) : users[i].username = username

(* The ids of the rows with a role, in id order (getAgents, getSecondaryAdmins) *)
RECURSIVE IdsWithRole(_, _)
IdsWithRole(n, role) ==
    IF n = 0 THEN <<>>
    ELSE IF users[n].role = role
         THEN Append(IdsWithRole(n - 1, role), n)
         ELSE IdsWithRole(n - 1, role)

getAgents == IdsWithRole(Len(users), "agent")

getSecondaryAdmins == IdsWithRole(Len(users), "secondary_admin")

(* storage.createUser: the row inserted for an insert value; the columns   *)
(* the value leaves out take the table's defaults.                         *)
createUser(insertUser) ==
    NewUser(insertUser.username, insertUser.fullName,
            IF "role" \in DOMAIN insertUser THEN insertUser.role ELSE "agent",
            IF "permissions" \in DOMAIN insertUser
               THEN insertUser.permissions ELSE NullPermissions)

(* storage.updateUser: UPDATE users SET updates WHERE id = id.  The target *)
(* row is chosen by id alone.                                              *)
updateUser(id, updates) ==
    [i \in 1 .. Len(users) |->
        IF i = id
        THEN [f \in DOMAIN users[i] |->
                 IF f \in DOMAIN updates THEN updates[f] ELSE users[i][f]]
        ELSE users[i]]

(* Request bodies the input schemas accept.  The schemas live in           *)
(* shared/routes.ts and shared/schema.ts.  A new account takes the first   *)
(* unused username of UsernamePool, or asks for one that is taken.         *)
UsernamePool == <<"admin", "agent1", "user3", "user4", "user5", "user6">>

Usernames == {"agent1", UsernamePool[Len(users) + 1]}

AgentCreateInputs ==
    {[username |-> n, fullName |-> "Jane Roe"] : n \in Usernames}
    \cup {[username |-> n, fullName |-> "Jane Roe", role |-> "admin"] :
             n \in Usernames}

SecondaryAdminCreateInputs ==
    {[username |-> n, fullName |-> "Jane Roe"] : n \in Usernames}
    \cup {[username |-> n, fullName |-> "Jane Roe", permissions |-> AllTrue] :
             n \in Usernames}

UserUpdateInputs ==
    {[role |-> "admin"], [permissions |-> AllTrue], [fullName |-> "Renamed"]}

UserIds == 1 .. MaxUsers

-----------------------------------------------------------------------------
(* Requests and responses *)

(* role is req.user.role as the handler reads it, "none" without a session *)
Request(op, a, id, perm, collectedBy) ==
    [op |-> op, actor |-> a, role |-> IF isAuthenticated(a) THEN user(a).role ELSE "none",
     id |-> id, perm |-> perm, collectedBy |-> collectedBy, query |-> <<>>,
     customFields |-> [k \in {} |-> ""]]

(* A request with a query string: the period of stats.summary, the filters *)
(* of records.list.                                                        *)
QueryRequest(op, a, perm, query) == [Request(op, a, 0, perm, 0) EXCEPT !.query = query]

Response(status, body) == [status |-> status, body |-> body]

NoReq == Request("none", Anon, 0, "none", 0)

NoRes == Response(0, <<>>)

(* hasPermission applied to an actor and a permission *)
CheckPermission(a, p) ==
    /\ req' = Request("hasPermission", a, 0, p, 0)
    /\ res' = Response(IF hasPermission(a, p) THEN 200 ELSE 403, <<>>)
    /\ UNCHANGED <<users, records, nextRecordId, tz, customColumns>>

CheckPermissionStep == \E a \in Actors, p \in ALL_PERMISSIONS : CheckPermission(a, p)

-----------------------------------------------------------------------------
(* Agent management routes *)

AgentsListAdminsOnly(a) ==
    /\ req' = Request("agents.list", a, 0, "viewAgents", 0)
    /\ res' = IF ~isAuthenticated(a) THEN Response(401, <<>>)
              ELSE IF ~hasPermission(a, "viewAgents") THEN Response(403, <<>>)
              ELSE Response(200, getAgents)
    /\ UNCHANGED <<users, records, nextRecordId, tz, customColumns>>

AgentsList(a) ==
    /\ req' = Request("agents.list", a, 0, "viewAgents", 0)
    /\ res' = IF ~isAuthenticated(a) THEN Response(401, <<>>)
              ELSE IF user(a).role = "secondary_admin" /\ ~hasPermission(a, "viewAgents")
                   THEN Response(403, <<>>)
              ELSE Response(200, getAgents)
    /\ UNCHANGED <<users, records, nextRecordId, tz, customColumns>>

AgentsCreate(a, input) ==
    /\ req' = Request("agents.create", a, 0, "createAgents", 0)
    /\ IF ~hasPermission(a, "createAgents")
       THEN res' = Response(403, <<>>) /\ UNCHANGED users
       ELSE IF getUserByUsername(input.username)
            THEN res' = Response(400, <<>>) /\ UNCHANGED users
            ELSE /\ Len(users) < MaxUsers
                 /\ users' = Append(users, createUser(input))
                 /\ res' = Response(201, <<>>)
    /\ UNCHANGED <<records, nextRecordId, tz, customColumns>>

AgentsUpdate(a, id, input) ==
    /\ req' = Request("agents.update", a, 0, "editAgents", 0)
    /\ IF ~hasPermission(a, "editAgents")
       THEN res' = Response(403, <<>>) /\ UNCHANGED users
       ELSE /\ users' = updateUser(id, input)
            /\ res' = Response(200, <<>>)
    /\ UNCHANGED <<records, nextRecordId, tz, customColumns>>

-----------------------------------------------------------------------------
(* Secondary admin routes *)

SecondaryAdminsList(a) ==
    /\ req' = Request("secondaryAdmins.list", a, 0, "none", 0)
    /\ res' = IF ~isAdmin(a) THEN Response(403, <<>>)
              ELSE Response(200, getSecondaryAdmins)
    /\ UNCHANGED <<users, records, nextRecordId, tz, customColumns>>

SecondaryAdminsCreate(a, input) ==
    /\ req' = Request("secondaryAdmins.create", a, 0, "none", 0)
    /\ IF ~isAdmin(a)
       THEN res' = Response(403, <<>>) /\ UNCHANGED users
       ELSE IF getUserByUsername(input.username)
            THEN res' = Response(400, <<>>) /\ UNCHANGED users
            ELSE /\ Len(users) < MaxUsers
                 /\ users' = Append(users,
                        createUser([f \in DOMAIN input \cup {"role"} |->
                                       IF f = "role" THEN "secondary_admin" ELSE input[f]]))
                 /\ res' = Response(201, <<>>)
    /\ UNCHANGED <<records, nextRecordId, tz, customColumns>>

SecondaryAdminsUpdate(a, id, input) ==
    /\ req' = Request("secondaryAdmins.update", a, 0, "none", 0)
    /\ IF ~isAdmin(a)
       THEN res' = Response(403, <<>>) /\ UNCHANGED users
       ELSE /\ users' = updateUser(id, input)
            /\ res' = Response(200, <<>>)
    /\ UNCHANGED <<records, nextRecordId, tz, customColumns>>

AgentsListStep == \E a \in Actors : AgentsList(a)

AgentsCreateStep == \E a \in Actors, input \in AgentCreateInputs : AgentsCreate(a, input)

AgentsUpdateStep ==
    \E a \in Actors, id \in UserIds, input \in UserUpdateInputs : AgentsUpdate(a, id, input)

SecondaryAdminsListStep == \E a \in Actors : SecondaryAdminsList(a)

SecondaryAdminsCreateStep ==
    \E a \in Actors, input \in SecondaryAdminCreateInputs : SecondaryAdminsCreate(a, input)

SecondaryAdminsUpdateStep ==
    \E a \in Actors, id \in UserIds, input \in UserUpdateInputs :
        SecondaryAdminsUpdate(a, id, input)

-----------------------------------------------------------------------------
(* Records table.  Text columns are sequences of characters; a timestamp   *)
(* is a number of hours since 1970-01-01T00:00Z, NoTime is SQL NULL.       *)

NoTime == -1

(* A customFields value (jsonb): a map from custom column names to values; *)
(* the map of a record written without custom fields is empty.             *)
NoCustomFields == [k \in {} |-> ""]

(* Days since 1970-01-01 of a calendar date (proleptic Gregorian) *)
DaysFromCivil(y, m, d) ==
    LET yy  == IF m <= 2 THEN y - 1 ELSE y
        era == yy \div 400
        yoe == yy - era * 400
        mp  == (m + 9) % 12
        doy == (153 * mp + 2) \div 5 + d - 1
        doe == yoe * 365 + yoe \div 4 - yoe \div 100 + doy
    IN  era * 146097 + doe - 719468

Hours(y, m, d, h) == DaysFromCivil(y, m, d) * 24 + h

(* The readings of the server clock: at an insert, and at a later update *)
ClockNow == Hours(2024, 1, 8, 5)

ClockLater == Hours(2024, 1, 9, 7)

(* storage.createRecord: the row inserted; id is the serial, the columns   *)
(* the value leaves out take the table's defaults.  The store constrains   *)
(* the username and the column name only: collectedBy is stored as given.  *)
createRecord(insertRecord) ==
    [id |-> nextRecordId,
     collectedBy |-> insertRecord.collectedBy,
     landlordName |-> insertRecord.landlordName,
     town |-> insertRecord.town,
     area |-> insertRecord.area,
     customFields |-> IF "customFields" \in DOMAIN insertRecord
                         THEN insertRecord.customFields ELSE NoCustomFields,
     createdAt |-> IF "createdAt" \in DOMAIN insertRecord
                      THEN insertRecord.createdAt ELSE ClockNow,
     updatedAt |-> ClockNow]

(* storage.updateRecord: UPDATE records SET updates, updatedAt = now WHERE *)
(* id = id.  The row is chosen by id alone.                                *)
updateRecord(id, updates) ==
    [i \in 1 .. Len(records) |->
        IF records[i].id = id
        THEN [f \in DOMAIN records[i] |->
                 IF f = "updatedAt" THEN ClockLater
                 ELSE IF f \in DOMAIN updates THEN updates[f] ELSE records[i][f]]
        ELSE records[i]]

(* storage.deleteRecord *)
deleteRecord(id) == SelectSeq(records, LAMBDA r : r.id # id)

recordExists(id) == \E i \in 1 .. Len(records) : records[i].id = id

(* The value of a field of a record body with collectedBy taken out and    *)
(* put back by the handler.                                                *)
WithCollectedBy(body, collectedBy) ==
    [f \in (DOMAIN body \cup {"collectedBy"}) |->
        IF f = "collectedBy" THEN collectedBy ELSE body[f]]

BodyCollectedBy(body) == IF "collectedBy" \in DOMAIN body THEN body.collectedBy ELSE 0

BodyCustomFields(body) ==
    IF "customFields" \in DOMAIN body THEN body.customFields ELSE NoCustomFields

-----------------------------------------------------------------------------
(* Record routes *)

(* The collectedBy the create handler stores: the actor's id, or the       *)
(* body's value when the actor is an admin or secondary admin and the body *)
(* carries a truthy one.                                                   *)
StoredCollectedByFromBody(a, body) ==
    IF BodyCollectedBy(body) # 0 THEN BodyCollectedBy(body) ELSE a

StoredCollectedBy(a, body) ==
    IF isAdminOrSecondary(a) /\ BodyCollectedBy(body) # 0
    THEN BodyCollectedBy(body)
    ELSE a

(* POST records.create.  A body without the required columns fails the     *)
(* schema's parse and is answered 400.                                     *)
RecordsCreate(a, body) ==
    /\ req' = [Request("records.create", a, 0, "addRecords", BodyCollectedBy(body))
                  EXCEPT !.customFields = BodyCustomFields(body)]
    /\ IF ~isAuthenticated(a)
       THEN res' = Response(401, <<>>) /\ UNCHANGED <<records, nextRecordId>>
       ELSE IF user(a).role # "agent" /\ ~hasPermission(a, "addRecords")
            THEN res' = Response(403, <<>>) /\ UNCHANGED <<records, nextRecordId>>
            ELSE IF "landlordName" \notin DOMAIN body
                 THEN res' = Response(400, <<>>) /\ UNCHANGED <<records, nextRecordId>>
                 ELSE LET record == createRecord(WithCollectedBy(body, StoredCollectedBy(a, body)))
                      IN  /\ records' = Append(records, record)
                          /\ nextRecordId' = nextRecordId + 1
                          /\ res' = Response(201, <<record>>)
    /\ UNCHANGED <<users, tz, customColumns>>

RecordsUpdate(a, id, input) ==
    /\ req' = [Request("records.update", a, id, "editRecords", 0)
                  EXCEPT !.customFields = BodyCustomFields(input)]
    /\ IF ~isAuthenticated(a)
       THEN res' = Response(401, <<>>) /\ UNCHANGED records
       ELSE IF ~hasPermission(a, "editRecords") /\ user(a).role # "agent"
            THEN res' = Response(403, <<>>) /\ UNCHANGED records
            ELSE /\ records' = updateRecord(id, input)
                 /\ res' = IF recordExists(id) THEN Response(200, <<>>)
                                              ELSE Response(404, <<>>)
    /\ UNCHANGED <<users, nextRecordId, tz, customColumns>>

RecordsDelete(a, id) ==
    /\ req' = Request("records.delete", a, id, "deleteRecords", 0)
    /\ IF ~hasPermission(a, "deleteRecords")
       THEN res' = Response(403, <<>>) /\ UNCHANGED records
       ELSE records' = deleteRecord(id) /\ res' = Response(204, <<>>)
    /\ UNCHANGED <<users, nextRecordId, tz, customColumns>>

-----------------------------------------------------------------------------
(* Custom columns table: its rows in the order of getCustomColumns (by     *)
(* createdAt, the time of the insert) and the next value of its id serial. *)

NoCustomColumns == [rows |-> <<>>, serial |-> 1]

(* storage.getCustomColumns *)
getCustomColumns == customColumns.rows

(* storage.createCustomColumn: the row inserted; the columns the value     *)
(* leaves out take the table's defaults.                                   *)
createCustomColumn(column) ==
    [id |-> customColumns.serial,
     name |-> column.name,
     fieldType |-> column.fieldType,
     isRequired |-> IF "isRequired" \in DOMAIN column THEN column.isRequired ELSE FALSE,
     options |-> IF "options" \in DOMAIN column THEN column.options ELSE <<>>,
     isActive |-> IF "isActive" \in DOMAIN column THEN column.isActive ELSE TRUE]

(* storage.updateCustomColumn: UPDATE custom_columns SET updates WHERE id *)
updateCustomColumn(id, updates) ==
    [i \in 1 .. Len(customColumns.rows) |->
        IF customColumns.rows[i].id = id
        THEN [f \in DOMAIN customColumns.rows[i] |->
                 IF f \in DOMAIN updates THEN updates[f] ELSE customColumns.rows[i][f]]
        ELSE customColumns.rows[i]]

(* storage.deleteCustomColumn *)
deleteCustomColumn(id) == SelectSeq(customColumns.rows, LAMBDA c : c.id # id)

(* The store's uniqueness constraint on the column name: whether a row     *)
(* other than row id carries the name.                                     *)
columnNameTaken(name, id) ==
    \E i \in 1 .. Len(customColumns.rows) :
        customColumns.rows[i].name = name /\ customColumns.rows[i].id # id

(* GET customColumns.list *)
CustomColumnsList(a) ==
    /\ req' = Request("customColumns.list", a, 0, "none", 0)
    /\ res' = IF ~isAuthenticated(a) THEN Response(401, <<>>)
                                     ELSE Response(200, getCustomColumns)
    /\ UNCHANGED <<users, records, nextRecordId, tz, customColumns>>

(* POST customColumns.create.  A body without a name fails the schema's    *)
(* parse (400); an insert the store rejects is rethrown (500).             *)
CustomColumnsCreate(a, input) ==
    /\ req' = Request("customColumns.create", a, 0, "manageCustomColumns", 0)
    /\ IF ~hasPermission(a, "manageCustomColumns")
       THEN res' = Response(403, <<>>) /\ UNCHANGED customColumns
       ELSE IF "name" \notin DOMAIN input
            THEN res' = Response(400, <<>>) /\ UNCHANGED customColumns
            ELSE IF columnNameTaken(input.name, 0)
                 THEN res' = Response(500, <<>>) /\ UNCHANGED customColumns
                 ELSE LET column == createCustomColumn(input)
                      IN  /\ customColumns' =
                                [rows |-> Append(customColumns.rows, column),
                                 serial |-> customColumns.serial + 1]
                          /\ res' = Response(201, <<column>>)
    /\ UNCHANGED <<users, records, nextRecordId, tz>>

(* PUT customColumns.update *)
CustomColumnsUpdate(a, id, input) ==
    /\ req' = Request("customColumns.update", a, id, "manageCustomColumns", 0)
    /\ IF ~hasPermission(a, "manageCustomColumns")
       THEN res' = Response(403, <<>>) /\ UNCHANGED customColumns
       ELSE IF "name" \in DOMAIN input /\ columnNameTaken(input.name, id)
            THEN res' = Response(500, <<>>) /\ UNCHANGED customColumns
            ELSE /\ customColumns' = [customColumns EXCEPT !.rows = updateCustomColumn(id, input)]
                 /\ res' = Response(200, <<>>)
    /\ UNCHANGED <<users, records, nextRecordId, tz>>

(* DELETE customColumns.delete *)
CustomColumnsDelete(a, id) ==
    /\ req' = Request("customColumns.delete", a, id, "manageCustomColumns", 0)
    /\ IF ~hasPermission(a, "manageCustomColumns")
       THEN res' = Response(403, <<>>) /\ UNCHANGED customColumns
       ELSE /\ customColumns' = [customColumns EXCEPT !.rows = deleteCustomColumn(id)]
            /\ res' = Response(204, <<>>)
    /\ UNCHANGED <<users, records, nextRecordId, tz>>

-----------------------------------------------------------------------------
(* storage.getRecords *)

(* Case folding of the letters of the model's texts *)
Lower(c) ==
    CASE c = "A" -> "a" [] c = "B" -> "b" [] c = "K" -> "k" [] c = "L" -> "l"
      [] c = "N" -> "n" [] c = "E" -> "e" [] OTHER -> c

(* text ILIKE pattern: % matches any run of characters, _ any one *)
RECURSIVE LikeMatch(_, _)
LikeMatch(text, pattern) ==
    IF Len(pattern) = 0 THEN Len(text) = 0
    ELSE IF Head(pattern) = "%"
         THEN \/ LikeMatch(text, Tail(pattern))
              \/ Len(text) > 0 /\ LikeMatch(Tail(text), pattern)
         ELSE /\ Len(text) > 0
              /\ Head(pattern) = "_" \/ Lower(Head(pattern)) = Lower(Head(text))
              /\ LikeMatch(Tail(text), Tail(pattern))

ilike(text, s) == LikeMatch(text, <<"%">> \o s \o <<"%">>)

(* if (filters?.f): the filter is there and truthy (not 0, not "") *)
Given(filters, f) ==
    /\ f \in DOMAIN filters
    /\ IF f = "agentId" THEN filters[f] # 0
       ELSE IF f \in {"search", "town", "area"} THEN Len(filters[f]) > 0
       ELSE TRUE

(* One pushed condition applied to a row; a comparison with a NULL         *)
(* createdAt is not true.                                                  *)
Condition(r, filters, f) ==
    CASE f = "agentId"   -> r.collectedBy = filters.agentId
      [] f = "search"    -> ilike(r.landlordName, filters.search)
      [] f = "startDate" -> r.createdAt # NoTime /\ r.createdAt >= filters.startDate
      [] f = "endDate"   -> r.createdAt # NoTime /\ r.createdAt <= filters.endDate
      [] f = "town"      -> ilike(r.town, filters.town)
      [] f = "area"      -> ilike(r.area, filters.area)

FilterFields == {"agentId", "search", "startDate", "endDate", "town", "area"}

(* WHERE and(...conditions), or no WHERE when there is no condition *)
WhereAnyCondition(rows, filters) ==
    LET conditions == {f \in FilterFields : Given(filters, f)}
    IN  SelectSeq(rows, LAMBDA r :
            conditions = {} \/ \E f \in conditions : Condition(r, filters, f))

Where(rows, filters) ==
    LET conditions == {f \in FilterFields : Given(filters, f)}
    IN  SelectSeq(rows, LAMBDA r : \A f \in conditions : Condition(r, filters, f))

(* ORDER BY createdAt DESC: NULLs first, rows with equal createdAt in any  *)
(* order.                                                                  *)
OrderedDesc(rows) ==
    \A i \in 1 .. Len(rows) - 1 :
        \/ rows[i].createdAt = NoTime
        \/ rows[i + 1].createdAt # NoTime /\ rows[i].createdAt >= rows[i + 1].createdAt

Orderings(rows) ==
    LET n == Len(rows)
        bijections == {p \in [1 .. n -> 1 .. n] : \A i, j \in 1 .. n : p[i] = p[j] => i = j}
    IN  {s \in {[i \in 1 .. n |-> rows[p[i]]] : p \in bijections} : OrderedDesc(s)}

getRecords(filters) == Orderings(Where(records, filters))

(* GET records.list *)
RecordsList(a, filters) ==
    /\ req' = QueryRequest("records.list", a, "viewRecords", filters)
    /\ IF ~isAuthenticated(a)
       THEN res' = Response(401, <<>>)
       ELSE IF user(a).role = "secondary_admin" /\ ~hasPermission(a, "viewRecords")
            THEN res' = Response(403, <<>>)
            ELSE \E rows \in getRecords(filters) : res' = Response(200, rows)
    /\ UNCHANGED <<users, records, nextRecordId, tz, customColumns>>

-----------------------------------------------------------------------------
(* Dates as the JavaScript Date methods of getStats compute them.  tz is   *)
(* the offset of the server's local time from UTC, in hours.               *)

(* The calendar date of a number of days since 1970-01-01 *)
CivilFromDays(z) ==
    LET zz  == z + 719468
        era == zz \div 146097
        doe == zz - era * 146097
        yoe == (doe - doe \div 1460 + doe \div 36524 - doe \div 146096) \div 365
        doy == doe - (365 * yoe + yoe \div 4 - yoe \div 100)
        mp  == (5 * doy + 2) \div 153
        d   == doy - (153 * mp + 2) \div 5 + 1
        m   == IF mp < 10 THEN mp + 3 ELSE mp - 9
        y   == yoe + era * 400 + (IF m <= 2 THEN 1 ELSE 0)
    IN  [year |-> y, month |-> m, date |-> d]

(* Local-time getters: getFullYear, getMonth() + 1, getDate, getDay *)
LocalDays(t) == (t + tz) \div 24

LocalHour(t) == (t + tz) % 24

getFullYear(t) == CivilFromDays(LocalDays(t)).year

getMonth1(t) == CivilFromDays(LocalDays(t)).month

getDate(t) == CivilFromDays(LocalDays(t)).date

getDay(t) == (LocalDays(t) + 4) % 7

(* setDate(n) on a copy of t: day n of t's local month (n <= 0 reaches     *)
(* back into the month before), the local time of day kept.                *)
setDate(t, n) ==
    (DaysFromCivil(getFullYear(t), getMonth1(t), 1) + n - 1) * 24 + LocalHour(t) - tz

(* Strings of date keys are sequences of character codes *)
Digit(n) == 48 + n

Pad2(n) == <<Digit(n \div 10), Digit(n % 10)>>

Pad4(n) == <<Digit(n \div 1000), Digit((n \div 100) % 10), Digit((n \div 10) % 10), Digit(n % 10)>>

Dash == <<45>>

WeekPrefix == <<87, 32>>

(* toISOString().split('T')[0]: the UTC calendar date *)
ISODate(t) ==
    LET c == CivilFromDays(t \div 24)
    IN  Pad4(c.year) \o Dash \o Pad2(c.month) \o Dash \o Pad2(c.date)

(* The date key of a createdAt under a period *)
dateKey(t, period) ==
    IF period = "week"
    THEN WeekPrefix \o ISODate(setDate(t, getDate(t) - getDay(t)))
    ELSE IF period = "month"
         THEN Pad4(getFullYear(t)) \o Dash \o Pad2(getMonth1(t))
         ELSE ISODate(t)

(* a.localeCompare(b) < 0 on date keys: code order, a proper prefix first *)
RECURSIVE KeyLess(_, _)
KeyLess(a, b) ==
    IF Len(b) = 0 THEN FALSE
    ELSE IF Len(a) = 0 THEN TRUE
    ELSE IF Head(a) # Head(b) THEN Head(a) < Head(b)
    ELSE KeyLess(Tail(a), Tail(b))

(* The keys of a set in ascending order *)
RECURSIVE SortKeys(_)
SortKeys(S) ==
    IF S = {} THEN <<>>
    ELSE LET least == CHOOSE k \in S : \A o \in S \ {k} : KeyLess(k, o)
         IN  <<least>> \o SortKeys(S \ {least})

(* Integer keys of an object in the order Object.entries lists them *)
RECURSIVE SortIds(_)
SortIds(S) ==
    IF S = {} THEN <<>>
    ELSE LET least == CHOOSE k \in S : \A o \in S : k <= o
         IN  <<least>> \o SortIds(S \ {least})

-----------------------------------------------------------------------------
(* storage.getStats *)

(* agentMap.get(id) || `Agent #${id}`: agentMap holds the role = agent rows *)
Named(fullName) == <<fullName>>

AgentLabel(id) == <<"Agent #", id>>

agentName(id) ==
    IF id \in 1 .. Len(users) /\ users[id].role = "agent"
    THEN Named(users[id].fullName)
    ELSE AgentLabel(id)

(* agentCounts: the loop counts every record under its collectedBy *)
agentCountsDatedOnly(id) ==
    Len(SelectSeq(records, LAMBDA r : r.collectedBy = id /\ r.createdAt # NoTime))

agentCounts(id) == Len(SelectSeq(records, LAMBDA r : r.collectedBy = id))

recordsPerAgent ==
    LET ids == SortIds({records[i].collectedBy : i \in 1 .. Len(records)})
    IN  [k \in 1 .. Len(ids) |->
            [agentId |-> ids[k], agentName |-> agentName(ids[k]), count |-> agentCounts(ids[k])]]

recordsByPeriod(period) ==
    LET dated == SelectSeq(records, LAMBDA r : r.createdAt # NoTime)
        keys  == SortKeys({dateKey(dated[i].createdAt, period) : i \in 1 .. Len(dated)})
    IN  [k \in 1 .. Len(keys) |->
            [date |-> keys[k],
             count |-> Len(SelectSeq(dated, LAMBDA r : dateKey(r.createdAt, period) = keys[k]))]]

getStats(period) ==
    [totalRecords |-> Len(records),
     recordsPerAgent |-> recordsPerAgent,
     recordsByPeriod |-> recordsByPeriod(period)]

(* GET stats.summary: a period that is not day, week or month counts as day *)
StatsSummary(a, period) ==
    /\ req' = QueryRequest("stats.summary", a, "viewStats", period)
    /\ res' = IF ~hasPermission(a, "viewStats") THEN Response(403, <<>>)
              ELSE LET safePeriod == IF period \in {"day", "week", "month"} THEN period ELSE "day"
                   IN  Response(200, getStats(safePeriod))
    /\ UNCHANGED <<users, records, nextRecordId, tz, customColumns>>

-----------------------------------------------------------------------------
(* The server after seedDatabase: one admin and one agent *)

Init ==
    /\ users = <<SeedAdmin, SeedAgent>>
    /\ records = <<>>
    /\ nextRecordId = 1
    /\ tz = 0
    /\ customColumns = NoCustomColumns
    /\ req = NoReq
    /\ res = NoRes

Next ==
    \/ AgentsListStep
    \/ AgentsCreateStep
    \/ AgentsUpdateStep
    \/ SecondaryAdminsListStep
    \/ SecondaryAdminsCreateStep
    \/ SecondaryAdminsUpdateStep

Spec == Init /\ [][Next]_vars

-----------------------------------------------------------------------------
(* Record writes over a population the admin has set up: the two seeded    *)
(* accounts, a second agent, a secondary admin holding every permission    *)
(* and one holding none.                                                   *)

Population ==
    <<SeedAdmin, SeedAgent,
      NewUser("user3", "Jane Roe", "agent", NullPermissions),
      NewUser("user4", "Jane Roe", "secondary_admin", AllTrue),
      NewUser("user5", "Jane Roe", "secondary_admin", NullPermissions)>>

TextAnn == <<"A", "n", "n">>

TextEd == <<"E", "d">>

TextTown == <<"K", "a">>

TextArea == <<"N">>

RecordBody == [landlordName |-> TextAnn, town |-> TextTown, area |-> TextArea]

EmptyBody == [f \in {} |-> 0]

(* collectedBy values a body carries: an agent, the other agent, no user *)
CollectedByInputs == {2, 3, 9}

RecordBodies ==
    {RecordBody, EmptyBody} \cup {WithCollectedBy(RecordBody, c) : c \in CollectedByInputs}

RecordUpdateInputs == {[landlordName |-> TextEd]}

RecordIds == 1 .. MaxRecords

RecordsCreateStep ==
    \E a \in Actors, body \in RecordBodies :
        nextRecordId <= MaxRecords /\ RecordsCreate(a, body)

RecordsUpdateStep ==
    \E a \in Actors, id \in RecordIds, input \in RecordUpdateInputs : RecordsUpdate(a, id, input)

RecordsDeleteStep == \E a \in Actors, id \in RecordIds : RecordsDelete(a, id)

InitRecords ==
    /\ users = Population
    /\ records = <<>>
    /\ nextRecordId = 1
    /\ tz = 0
    /\ customColumns = NoCustomColumns
    /\ req = NoReq
    /\ res = NoRes

NextRecords ==
    \/ RecordsCreateStep
    \/ RecordsUpdateStep
    \/ RecordsDeleteStep

SpecRecords == InitRecords /\ [][NextRecords]_vars

-----------------------------------------------------------------------------
(* Statistics over the seeded server, in a process time zone of TZOffsets. *)
(* Records come in through records.create with a createdAt of the body.    *)

TZOffsets == {-5, 0, 2}

Times ==
    {Hours(2024, 1, 1, 10), Hours(2024, 1, 1, 23), Hours(2024, 1, 8, 5), NoTime}

StatsBodies ==
    {[landlordName |-> TextAnn, town |-> TextTown, area |-> TextArea, createdAt |-> t] :
        t \in Times}
    \cup {[landlordName |-> TextAnn, town |-> TextTown, area |-> TextArea, createdAt |-> t,
           collectedBy |-> c] : t \in Times, c \in {2, 9}}

Periods == {"day", "week", "month", "year"}

StatsCreateStep ==
    \E a \in Actors, body \in StatsBodies :
        nextRecordId <= MaxRecords /\ RecordsCreate(a, body)

StatsSummaryStep == \E a \in Actors, period \in Periods : StatsSummary(a, period)

InitStats ==
    /\ users = <<SeedAdmin, SeedAgent>>
    /\ records = <<>>
    /\ nextRecordId = 1
    /\ tz \in TZOffsets
    /\ customColumns = NoCustomColumns
    /\ req = NoReq
    /\ res = NoRes

NextStats ==
    \/ StatsCreateStep
    \/ StatsSummaryStep

SpecStats == InitStats /\ [][NextStats]_vars

-----------------------------------------------------------------------------
(* Record listing over the seeded server.  Records come in through         *)
(* records.create.                                                         *)

TextBan == <<"B", "a", "n">>

TextLu == <<"L", "u">>

FilterBodies ==
    {[landlordName |-> TextAnn, town |-> TextTown, area |-> TextArea,
      createdAt |-> Hours(2024, 1, 1, 10)],
     [landlordName |-> TextBan, town |-> TextTown, area |-> TextArea,
      createdAt |-> Hours(2024, 1, 8, 5), collectedBy |-> 2],
     [landlordName |-> TextBan, town |-> TextLu, area |-> TextArea,
      createdAt |-> NoTime]}

(* The values a query gives each filter *)
FilterValues ==
    [agentId   |-> {0, 2},
     search    |-> {<<"A", "N", "N">>},
     startDate |-> {Hours(2024, 1, 1, 10)},
     endDate   |-> {Hours(2024, 1, 1, 23)},
     town      |-> {<<"_", "a">>},
     area      |-> {<<>>, <<"n">>}]

(* Every filter set over some fields: each field left out or given one of  *)
(* its values.  A query carries at most MaxFilterFields filters.           *)
RECURSIVE FiltersOver(_)
FiltersOver(S) ==
    IF S = {} THEN {[f \in {} |-> 0]}
    ELSE LET f    == CHOOSE x \in S : TRUE
             rest == FiltersOver(S \ {f})
         IN  rest \cup {[g \in DOMAIN q \cup {f} |-> IF g = f THEN v ELSE q[g]] :
                           q \in rest, v \in FilterValues[f]}

Filters == {q \in FiltersOver(FilterFields) : Cardinality(DOMAIN q) <= MaxFilterFields}

FilterCreateStep ==
    \E body \in FilterBodies : nextRecordId <= MaxRecords /\ RecordsCreate(1, body)

RecordsListStep == \E a \in Actors, filters \in Filters : RecordsList(a, filters)

InitFilter ==
    /\ users = <<SeedAdmin, SeedAgent>>
    /\ records = <<>>
    /\ nextRecordId = 1
    /\ tz = 0
    /\ customColumns = NoCustomColumns
    /\ req = NoReq
    /\ res = NoRes

NextFilter ==
    \/ FilterCreateStep
    \/ RecordsListStep

SpecFilter == InitFilter /\ [][NextFilter]_vars

-----------------------------------------------------------------------------
(* The permission check over the seeded users and a third account with any *)
(* role and any stored permissions value.                                  *)
InitPerm ==
    /\ \E r \in Roles, m \in AnyPermissions :
          users = <<SeedAdmin, SeedAgent, NewUser("user3", "Jane Roe", r, m)>>
    /\ records = <<>>
    /\ nextRecordId = 1
    /\ tz = 0
    /\ customColumns = NoCustomColumns
    /\ req = NoReq
    /\ res = NoRes

NextPerm ==
    \/ CheckPermissionStep
    \/ StatsSummaryStep

SpecPerm == InitPerm /\ [][NextPerm]_vars

-----------------------------------------------------------------------------
(* Custom columns and the record writes that carry customFields, over the  *)
(* seeded accounts and a secondary admin without permissions.              *)

Staff ==
    <<SeedAdmin, SeedAgent,
      NewUser("user3", "Jane Roe", "secondary_admin", NullPermissions)>>

RoofType == [name |-> "Roof Type", fieldType |-> "select", options |-> <<"Tile", "Metal">>]

Notes == [name |-> "Notes", fieldType |-> "text"]

ColumnInputs == {RoofType, Notes, [fieldType |-> "text"]}

ColumnUpdateInputs == {[isActive |-> FALSE], [options |-> <<"Tile", "Metal", "Thatch">>]}

ColumnIds == 1 .. MaxColumns

CustomFieldsInputs == {[k \in {"Roof Type"} |-> v] : v \in {"Thatch", "Tile"}}

WithCustomFields(body, customFields) ==
    [f \in (DOMAIN body \cup {"customFields"}) |->
        IF f = "customFields" THEN customFields ELSE body[f]]

ColumnRecordBodies == {WithCustomFields(RecordBody, cf) : cf \in CustomFieldsInputs}

ColumnRecordUpdateInputs == {[customFields |-> cf] : cf \in CustomFieldsInputs}

CustomColumnsListStep == \E a \in Actors : CustomColumnsList(a)

CustomColumnsCreateStep ==
    \E a \in Actors, input \in ColumnInputs :
        customColumns.serial <= MaxColumns /\ CustomColumnsCreate(a, input)

CustomColumnsUpdateStep ==
    \E a \in Actors, id \in ColumnIds, input \in ColumnUpdateInputs :
        CustomColumnsUpdate(a, id, input)

CustomColumnsDeleteStep == \E a \in Actors, id \in ColumnIds : CustomColumnsDelete(a, id)

ColumnRecordsCreateStep ==
    \E a \in Actors, body \in ColumnRecordBodies :
        nextRecordId <= MaxRecords /\ RecordsCreate(a, body)

ColumnRecordsUpdateStep ==
    \E a \in Actors, id \in RecordIds, input \in ColumnRecordUpdateInputs :
        RecordsUpdate(a, id, input)

InitColumns ==
    /\ users = Staff
    /\ records = <<>>
    /\ nextRecordId = 1
    /\ tz = 0
    /\ customColumns = NoCustomColumns
    /\ req = NoReq
    /\ res = NoRes

NextColumns ==
    \/ CustomColumnsListStep
    \/ CustomColumnsCreateStep
    \/ CustomColumnsUpdateStep
    \/ CustomColumnsDeleteStep
    \/ ColumnRecordsCreateStep
    \/ ColumnRecordsUpdateStep

SpecColumns == InitColumns /\ [][NextColumns]_vars

-----------------------------------------------------------------------------
(* Properties *)

(* The permission names a stored permissions value maps to true *)
TrueKeys(perms) == IF perms.isNull THEN {} ELSE {k \in DOMAIN perms.map : perms.map[k]}

(* C1: the permission check grants p exactly when the actor is an admin,   *)
(* whatever its permissions value, or a secondary_admin whose permissions  *)
(* map p to true; it grants nothing to an agent or without a session.  The *)
(* statistics are served to a secondary_admin exactly when its permissions *)
(* map viewStats to true.                                                  *)
C1_PermissionGrant ==
    /\ req.op = "hasPermission" =>
          (res.status = 200 <=>
              \/ req.role = "admin"
              \/ /\ req.role = "secondary_admin"
                 /\ req.perm \in TrueKeys(users[req.actor].permissions))
    /\ (req.op = "stats.summary" /\ req.role = "secondary_admin") =>
          (res.status = 200 <=> "viewStats" \in TrueKeys(users[req.actor].permissions))
    /\ (req.op = "stats.summary" /\ req.role \in {"agent", "none"}) => res.status = 403

(* C1 witness: a secondary_admin is denied a permission its map holds as   *)
(* false while the nine others are true.                                   *)
C1_Witness ==
    /\ req.op = "hasPermission"
    /\ req.role = "secondary_admin"
    /\ res.status = 403
    /\ TrueKeys(users[req.actor].permissions) = ALL_PERMISSIONS \ {req.perm}

SecondaryAdminOps == {"secondaryAdmins.list", "secondaryAdmins.create", "secondaryAdmins.update"}

(* C2: the three secondary-admin routes answer 403 to every actor that is  *)
(* not an admin, and never 403 to an admin.                                *)
C2_SecondaryAdminRoutesAdminOnly ==
    req.op \in SecondaryAdminOps => (res.status = 403 <=> req.role # "admin")

(* C2 witness: a secondary_admin holding all ten permissions is refused    *)
(* the creation of a secondary admin.                                      *)
C2_Witness ==
    /\ req.op = "secondaryAdmins.create"
    /\ req.role = "secondary_admin"
    /\ users[req.actor].permissions = AllTrue
    /\ res.status = 403

(* C3: a request of an actor that is not an admin changes no stored role   *)
(* or permissions value, creates no admin or secondary_admin and leaves    *)
(* the rows of admins and secondary admins as they are.                    *)
C3_NoElevationByNonAdmin ==
    [][req'.role # "admin" =>
          /\ \A i \in 1 .. Len(users) :
                /\ users'[i].role = users[i].role
                /\ users'[i].permissions = users[i].permissions
                /\ users[i].role \in {"admin", "secondary_admin"} => users'[i] = users[i]
          /\ \A i \in (Len(users) + 1) .. Len(users') : users'[i].role = "agent"]_vars

(* C4: the agent list is served exactly to admins and to secondary admins  *)
(* holding viewAgents.                                                     *)
C4_AgentsListAdminsOnly ==
    req.op = "agents.list" =>
        (res.status = 200 <=>
            \/ req.role = "admin"
            \/ /\ req.role = "secondary_admin"
               /\ "viewAgents" \in TrueKeys(users[req.actor].permissions))

(* C4 as amended: the agent list is served exactly to admins, to agents    *)
(* and to secondary admins holding viewAgents; a request without a session *)
(* gets 401 and a secondary_admin without viewAgents gets 403.             *)
C4_AgentsListAccess ==
    req.op = "agents.list" =>
        /\ res.status = 200 <=>
              \/ req.role \in {"admin", "agent"}
              \/ /\ req.role = "secondary_admin"
                 /\ "viewAgents" \in TrueKeys(users[req.actor].permissions)
        /\ res.status = 401 <=> req.role = "none"
        /\ res.status \in {200, 401, 403}

(* C4 witness: an agent is served the agent list *)
C4_Witness ==
    /\ req.op = "agents.list"
    /\ req.role = "agent"
    /\ res.status = 200
    /\ Len(res.body) > 0

(* C5: a record an agent creates is stored with the agent's own id as      *)
(* collectedBy, whatever the body carries; a stored collectedBy other than *)
(* the actor's id comes from an admin or secondary admin holding           *)
(* addRecords.                                                             *)
C5_AgentCollectsForSelf ==
    (req.op = "records.create" /\ res.status = 201) =>
        LET stored == records[Len(records)]
        IN  /\ stored = res.body[1]
            /\ req.role = "agent" => stored.collectedBy = req.actor
            /\ stored.collectedBy # req.actor =>
                  /\ req.role \in {"admin", "secondary_admin"}
                  /\ hasPermission(req.actor, "addRecords")

(* C5 witness: an agent's body names another user and the record is stored *)
(* under the agent's id.                                                   *)
C5_Witness ==
    /\ req.op = "records.create"
    /\ res.status = 201
    /\ req.role = "agent"
    /\ req.collectedBy \notin {0, req.actor}
    /\ req.collectedBy \in 1 .. Len(users)
    /\ records[Len(records)].collectedBy = req.actor

(* C6: an update request of an agent leaves a record collected by someone  *)
(* else as it is.                                                          *)
C6_AgentUpdatesOwnOnly ==
    [][(req'.op = "records.update" /\ req'.role = "agent") =>
          \A i \in 1 .. Len(records) :
              (records[i].id = req'.id /\ records[i].collectedBy # req'.actor)
                  => records'[i] = records[i]]_vars

RECURSIVE SumCounts(_)
SumCounts(entries) ==
    IF Len(entries) = 0 THEN 0 ELSE Head(entries).count + SumCounts(Tail(entries))

(* C7: totalRecords is the number of records and the sum of the counts of  *)
(* recordsPerAgent, which has one entry per collectedBy value among the    *)
(* records, counting the records without createdAt too.                    *)
C7_TotalIsSumPerAgent ==
    (req.op = "stats.summary" /\ res.status = 200) =>
        LET per == res.body.recordsPerAgent
            collectors == {records[i].collectedBy : i \in 1 .. Len(records)}
        IN  /\ res.body.totalRecords = Len(records)
            /\ SumCounts(per) = res.body.totalRecords
            /\ {per[k].agentId : k \in 1 .. Len(per)} = collectors
            /\ Len(per) = Cardinality(collectors)
            /\ \A k \in 1 .. Len(per) :
                  per[k].count =
                      Cardinality({i \in 1 .. Len(records) : records[i].collectedBy = per[k].agentId})

(* C7 witness: statistics over two collectors, one of whose records has no *)
(* createdAt.                                                              *)
C7_Witness ==
    /\ req.op = "stats.summary"
    /\ res.status = 200
    /\ Len(res.body.recordsPerAgent) = 2
    /\ \E i \in 1 .. Len(records) : records[i].createdAt = NoTime
    /\ Len(res.body.recordsByPeriod) < res.body.totalRecords

(* The keys the claim gives a createdAt: the UTC day; the Sunday that      *)
(* starts its week; its month.  Week and month are read on the UTC         *)
(* calendar (offset 0) or on the server's local calendar (offset tz).      *)
ClaimedKey(t, period, offset) ==
    LET days == (t + offset) \div 24
        c    == CivilFromDays(days)
        sun  == CivilFromDays(days - ((days + 4) % 7))
    IN  IF period = "week"
        THEN WeekPrefix \o Pad4(sun.year) \o Dash \o Pad2(sun.month) \o Dash \o Pad2(sun.date)
        ELSE IF period = "month"
             THEN Pad4(c.year) \o Dash \o Pad2(c.month)
             ELSE ISODate(t)

ClaimedBuckets(period, offset) ==
    LET dated == SelectSeq(records, LAMBDA r : r.createdAt # NoTime)
        keys  == SortKeys({ClaimedKey(dated[i].createdAt, period, offset) : i \in 1 .. Len(dated)})
    IN  [k \in 1 .. Len(keys) |->
            [date |-> keys[k],
             count |-> Cardinality({i \in 1 .. Len(dated) :
                                       ClaimedKey(dated[i].createdAt, period, offset) = keys[k]})]]

SafePeriod(period) == IF period \in {"day", "week", "month"} THEN period ELSE "day"

(* C8: recordsByPeriod partitions the records having a createdAt by UTC    *)
(* day, by Sunday-started week labelled with that Sunday's date, or by     *)
(* month, with the count of each bucket, in ascending order of the labels. *)
C8_BucketsByPeriod ==
    (req.op = "stats.summary" /\ res.status = 200) =>
        \/ res.body.recordsByPeriod = ClaimedBuckets(SafePeriod(req.query), 0)
        \/ res.body.recordsByPeriod = ClaimedBuckets(SafePeriod(req.query), tz)

(* C9: an entry of recordsPerAgent whose agentId is the id of a user       *)
(* carries that user's full name; the label "Agent #<id>" stands only for  *)
(* an id no user has.                                                      *)
C9_NamesOfExistingUsers ==
    (req.op = "stats.summary" /\ res.status = 200) =>
        \A k \in 1 .. Len(res.body.recordsPerAgent) :
            LET e == res.body.recordsPerAgent[k]
            IN  IF e.agentId \in 1 .. Len(users)
                THEN e.agentName = Named(users[e.agentId].fullName)
                ELSE e.agentName = AgentLabel(e.agentId)

(* A filter set cut down to some of its fields *)
Restrict(filters, S) == [f \in S |-> filters[f]]

Ids(rows) == {rows[i].id : i \in 1 .. Len(rows)}

(* C10: the rows of a listing are the rows that pass every filter given;   *)
(* for every split of the filters in two sets on distinct fields,          *)
(* filtering by one and then by the other, in either order, gives the rows *)
(* of filtering by both at once; with no filter given every row is listed. *)
C10_FiltersCommute ==
    (req.op = "records.list" /\ res.status = 200) =>
        /\ \A S \in SUBSET DOMAIN req.query :
              LET F1 == Restrict(req.query, S)
                  F2 == Restrict(req.query, DOMAIN req.query \ S)
              IN  /\ Ids(Where(Where(records, F1), F2)) = Ids(res.body)
                  /\ Ids(Where(Where(records, F2), F1)) = Ids(res.body)
        /\ Len(res.body) = Cardinality(Ids(res.body))
        /\ Ids(res.body) =
              {records[i].id : i \in
                  {j \in 1 .. Len(records) :
                      \A f \in DOMAIN req.query :
                          Given(req.query, f) => Condition(records[j], req.query, f)}}
        /\ (\A f \in DOMAIN req.query : ~Given(req.query, f)) => Ids(res.body) = Ids(records)

(* C10 witness: a listing by town and agentId that keeps one of two        *)
(* records, each filter alone keeping a different set.                     *)
C10_Witness ==
    /\ req.op = "records.list"
    /\ res.status = 200
    /\ DOMAIN req.query = {"town", "agentId"}
    /\ Len(records) = 2
    /\ Len(res.body) = 1
    /\ Ids(Where(records, Restrict(req.query, {"town"})))
          # Ids(Where(records, Restrict(req.query, {"agentId"})))

(* Whether customFields holds, for an active column of fieldType select,   *)
(* a value that is not one of the column's options.                        *)
SelectViolation(customFields) ==
    \E i \in 1 .. Len(getCustomColumns) :
        LET column == getCustomColumns[i]
        IN  /\ column.isActive
            /\ column.fieldType = "select"
            /\ column.name \in DOMAIN customFields
            /\ \A j \in 1 .. Len(column.options) :
                   column.options[j] # customFields[column.name]

(* C11: a record create or update the actor is allowed to make, whose      *)
(* customFields hold a value outside the options of an active select       *)
(* column, is answered with a validation failure (400); one whose values   *)
(* belong to the options passes.                                           *)
C11_SelectOptionsValidated ==
    (req.op \in {"records.create", "records.update"} /\ res.status \notin {401, 403, 404}) =>
        /\ SelectViolation(req.customFields) => res.status = 400
        /\ ~SelectViolation(req.customFields) => res.status \in {200, 201}

(* C12: after any sequence of record create and update requests, every    *)
(* stored record's collectedBy is the id of an existing user, also when an *)
(* admin or a secondary admin holding addRecords supplies the collectedBy  *)
(* in the body.                                                            *)
C12_CollectedByExistingUser ==
    \A i \in 1 .. Len(records) : records[i].collectedBy \in 1 .. Len(users)

====
